---- MODULE Spec2Model ----
(***************************************************************************)
(* Ocassia backend: the HTTP route handlers and socket handlers that the   *)
(* booking, listing, review, conversation, notification and login rules    *)
(* rest on, as state machines over the documents they read and write.      *)
(*                                                                         *)
(* Time is counted in ticks; TicksPerDay ticks make one local calendar     *)
(* day, so that endDate.setHours(23, 59, 59, 999) is the last tick of the  *)
(* day of the date it is applied to.                                       *)
(***************************************************************************)
EXTENDS Integers, Sequences, FiniteSets, TLC

\* ---------------------------------------------------------------- bounds
MaxBookings == 1
MaxBlocks   == 1
MaxListings == 2
MaxInflight == 2
MaxMessages == 2
MaxTokens   == 2
MaxTime     == 3
MaxResets   == 2
MaxUsers    == 2
MaxConversations == 3
NumDays     == 2
TicksPerDay == 2

\* ------------------------------------------------------- program constants
OK             == 200
CREATED        == 201
BAD_REQUEST    == 400
UNAUTHORIZED   == 401
FORBIDDEN      == 403
NOT_FOUND      == 404
CONFLICT       == 409
INTERNAL_ERROR == 500

PENDING   == "pending"
CONFIRMED == "confirmed"
CANCELLED == "cancelled"
COMPLETED == "completed"
BOOKING_STATUS == {PENDING, CONFIRMED, CANCELLED, COMPLETED}

ADMIN    == "admin"
HOST     == "host"
PROVIDER == "provider"
CENTER   == "center"

None == "none"

\* ------------------------------------------------------------------ users
Users == {"host1", "owner", "vendor", "admin"}

UserRole ==
  [u \in Users |->
     CASE u = "admin"  -> ADMIN
       [] u = "owner"  -> CENTER
       [] u = "vendor" -> PROVIDER
       [] OTHER        -> HOST]

VARIABLES
  bookings,       \* Booking collection, in order of creation
  centers,        \* EventCenter collection
  providers,      \* ServiceProvider collection
  op,             \* the handler that took the last step
  resp,           \* the HTTP status code it answered with in that step, 0 if none
  emitted,        \* the event a socket handler emitted to the calling socket
  cacVerified,    \* User.hostProfile.cacVerified of every user
  centerListings, \* the EventCenter documents the listing routes write
  providerListings, \* the ServiceProvider documents the listing routes write
  reviews,        \* Review collection, in order of creation
  inflight,       \* the POST /api/reviews requests between two awaits
  notifications,  \* Notification collection, in order of creation
  conversations,  \* Conversation collection
  messages,       \* Message collection, in order of creation
  rooms,          \* the conversation rooms and the users whose socket joined
  accounts,       \* User documents: isActive and the provider profile's rating
  tokens,         \* the users for whom a token was signed, in order of signing
  now,            \* Date.now(), in ticks of five minutes
  credentials,    \* User documents: password and the password-reset fields
  issued,         \* how many reset tokens crypto.randomBytes has produced
  spent,          \* history: the reset tokens a reset has accepted
  userDocs,       \* the User documents registration has stored, in order
  roleDocs,       \* the Host, ServiceProvider and EventCenter documents it stored
  moderating,     \* the hide and unhide requests between two awaits
  creating        \* the POST /api/conversations requests between two awaits

bookVars  == <<bookings, centers, providers>>
listVars  == <<cacVerified, centerListings, providerListings>>
revVars   == <<reviews, inflight>>
notifVars == <<notifications>>
chatVars  == <<conversations, messages, rooms>>
authVars  == <<accounts, tokens>>
ansVars   == <<op, resp, emitted>>
resetVars == <<now, credentials, issued, spent>>
regVars   == <<userDocs, roleDocs>>
modVars   == <<moderating>>
convVars  == <<creating>>
extVars   == <<resetVars, regVars, modVars, convVars>>

vars == <<bookVars, listVars, revVars, notifVars, chatVars, authVars, ansVars, extVars>>

\* what the booking and calendar routes never write
nonBookVars == <<listVars, revVars, notifVars, chatVars, authVars, extVars>>

\* what the listing routes never write
nonListVars == <<bookVars, revVars, notifVars, chatVars, authVars, extVars>>

\* what the review routes never write
nonRevVars == <<listVars, chatVars, tokens, extVars>>

\* what the conversation routes and socket handlers never write
nonChatVars == <<bookVars, listVars, revVars, authVars, extVars>>

\* what the notification routes never write
nonNotifVars == <<bookVars, listVars, revVars, chatVars, authVars, extVars>>

\* what login and the user administration never write
nonAuthVars == <<bookVars, listVars, revVars, notifVars, chatVars, extVars>>

\* what the password-reset routes never write
nonResetVars == <<bookVars, listVars, revVars, notifVars, chatVars, regVars, modVars, convVars>>

\* what registration never writes, its own frame apart
nonRegVars == <<bookVars, listVars, revVars, notifVars, chatVars, modVars, convVars>>

\* ------------------------------------------------------------ identifiers
CenterIds   == {"c1"}
ProviderIds == {"sp1"}
BookingIds  == 1..MaxBookings
Ticks       == 0..(NumDays * TicksPerDay - 1)

\* new Date(d); setHours(23, 59, 59, 999): the last instant of d's local day
EndOfDay(d) == (d \div TicksPerDay) * TicksPerDay + (TicksPerDay - 1)

\* Date.prototype.toDateString(): the local calendar day of d
DateString(d) == d \div TicksPerDay

\* the routes and socket events, as app.js and config/socket.js name them
Route ==
  [ PutStatus |-> "PUT /api/bookings/:bookingId/status",
    CancelBooking |-> "DELETE /api/bookings/:bookingId",
    CreateBooking |-> "POST /api/bookings",
    VerifyCac |-> "PUT /api/users/:id/verify-cac-admin",
    CreateCenter |-> "POST /api/centers",
    CreateProvider |-> "POST /api/providers",
    Review |-> "POST /api/reviews",
    GetMessages |-> "GET /api/conversations/:conversationId/messages",
    SendMessage |-> "POST /api/conversations/:conversationId/messages",
    MarkRead |-> "PUT /api/conversations/:conversationId/read",
    Archive |-> "PUT /api/conversations/:conversationId/archive",
    Unarchive |-> "PUT /api/conversations/:conversationId/unarchive",
    Join |-> "conversation:join",
    SocketSend |-> "message:send",
    SocketRead |-> "messages:read",
    ReadOne |-> "PUT /api/notifications/:notificationId/read",
    ReadAll |-> "PUT /api/notifications/read-all",
    DeleteOne |-> "DELETE /api/notifications/:notificationId",
    DeleteAll |-> "DELETE /api/notifications",
    Login |-> "POST /api/auth/login",
    ToggleStatus |-> "PUT /api/users/:id/toggle-status",
    Register |-> "POST /api/auth/register",
    Protect |-> "protect",
    Connect |-> "io.use",
    CreateConversation |-> "POST /api/conversations",
    GetReview |-> "GET /api/reviews/:reviewId",
    Hide |-> "PUT /api/reviews/:reviewId/hide",
    Unhide |-> "PUT /api/reviews/:reviewId/unhide",
    ForgotPassword |-> "POST /api/auth/forgot-password",
    ResetPassword |-> "POST /api/auth/reset-password/:resetToken" ]

\* the answer of a route handler
Answer(name, code) ==
  /\ op' = name
  /\ resp' = code
  /\ emitted' = None

\* a step of a route handler that ends at an await, before any answer
Await(name) == Answer(name, 0)

\* the answer of a socket handler: socket.emit(event, ...)
Emit(name, event) ==
  /\ op' = name
  /\ resp' = 0
  /\ emitted' = event

\* ====================================================================
\* Bookings (routes/bookings.js) and the calendar of an event center
\* ====================================================================
Reject(name, code) ==
  /\ Answer(name, code)
  /\ UNCHANGED bookVars

Exists(b) == b \in 1..Len(bookings)

\* POST /api/bookings: eventCenter.availability.bookedDates.some(...)
CenterIsBooked(ec, eventDate) ==
  LET startDate == eventDate
      endDate   == EndOfDay(eventDate)
  IN  \E i \in DOMAIN ec.bookedDates :
         LET booking == ec.bookedDates[i] IN startDate <= booking.endDate /\ endDate >= booking.startDate

\* an overlap test that leaves out the bounds of the blocked range
CenterIsBlocked_exclusive(ec, eventDate) ==
  LET startDate == eventDate
      endDate   == EndOfDay(eventDate)
  IN  \E i \in DOMAIN ec.blockedDates :
         LET block == ec.blockedDates[i] IN startDate < block.endDate /\ endDate > block.startDate

\* POST /api/bookings: eventCenter.availability.blockedDates.some(...)
CenterIsBlocked(ec, eventDate) ==
  LET startDate == eventDate
      endDate   == EndOfDay(eventDate)
  IN  \E i \in DOMAIN ec.blockedDates :
         LET block == ec.blockedDates[i] IN startDate <= block.endDate /\ endDate >= block.startDate

\* POST /api/bookings: serviceProvider.availability.unavailableDates.some(...)
ProviderIsUnavailable(sp, eventDate) ==
  \E unavailableDate \in sp.unavailableDates :
     DateString(unavailableDate) = DateString(eventDate)

\* GET /api/centers/:centerId/availability: data.isAvailable
IsAvailable(center, start, end) ==
  LET isBooked  == \E i \in DOMAIN center.bookedDates :
         LET booking == center.bookedDates[i] IN start <= booking.endDate /\ end >= booking.startDate
      isBlocked == \E i \in DOMAIN center.blockedDates :
         LET block == center.blockedDates[i] IN start <= block.endDate /\ end >= block.startDate
  IN  ~isBooked /\ ~isBlocked

\* Booking.cancellation before any cancellation: a nested path with no field set
NoCancellation == [cancelledBy |-> None]

\* The Booking document POST /api/bookings creates.  Of a statusHistory entry
\* the model keeps status and changedBy, of cancellation cancelledBy: the
\* clock values and free-text reasons stored beside them are never read.
NewBooking(user, bookingType, provider, spId, ecId, eventDate) ==
  [ bookingType     |-> bookingType,
    customer        |-> user,
    provider        |-> provider,
    serviceProvider |-> spId,
    eventCenter     |-> ecId,
    eventDate       |-> eventDate,
    status          |-> PENDING,
    statusHistory   |-> << [status |-> PENDING, changedBy |-> user] >>,
    cancellation    |-> NoCancellation,
    reviewed        |-> FALSE,
    review          |-> 0 ]

\* POST /api/bookings: the status code of the answer.  guestCount = 0 stands
\* for a body without guestCount.
CreateBookingCode(user, bookingType, spId, ecId, hasDetails, hasPricing, eventDate, guestCount) ==
  IF bookingType \notin {"provider", "center"} THEN BAD_REQUEST
  ELSE IF ~hasDetails THEN BAD_REQUEST
  ELSE IF ~hasPricing THEN BAD_REQUEST
  ELSE IF bookingType = "provider" THEN
    IF spId = None THEN BAD_REQUEST
    ELSE IF spId \notin DOMAIN providers THEN NOT_FOUND
    ELSE LET serviceProvider == providers[spId] IN
      IF ~serviceProvider.isActive \/ serviceProvider.verificationStatus # "verified"
        THEN BAD_REQUEST
      ELSE IF \/ ProviderIsUnavailable(serviceProvider, eventDate)
              \/ serviceProvider.status # "available"
        THEN CONFLICT
      ELSE IF serviceProvider.provider = user THEN BAD_REQUEST
      ELSE CREATED
  ELSE
    IF ecId = None THEN BAD_REQUEST
    ELSE IF ecId \notin DOMAIN centers THEN NOT_FOUND
    ELSE LET eventCenter == centers[ecId] IN
      IF ~eventCenter.isActive \/ eventCenter.verificationStatus # "verified"
        THEN BAD_REQUEST
      ELSE IF CenterIsBooked(eventCenter, eventDate) \/ CenterIsBlocked(eventCenter, eventDate)
        THEN CONFLICT
      ELSE IF /\ guestCount # 0
              /\ \/ guestCount < eventCenter.capacity.minimum
                 \/ guestCount > eventCenter.capacity.maximum
        THEN BAD_REQUEST
      ELSE IF eventCenter.owner = user THEN BAD_REQUEST
      ELSE CREATED

\* POST /api/bookings
CreateBooking(user, bookingType, spId, ecId, hasDetails, hasPricing, eventDate, guestCount) ==
  LET name == "POST /api/bookings"
      code == CreateBookingCode(user, bookingType, spId, ecId, hasDetails,
                                hasPricing, eventDate, guestCount)
      provider == IF bookingType = "provider"
                  THEN providers[spId].provider
                  ELSE centers[ecId].owner
  IN
  IF code # CREATED THEN Reject(name, code)
  ELSE /\ bookings' = Append(bookings,
             NewBooking(user, bookingType, provider, spId, ecId, eventDate))
       /\ Answer(name, CREATED)
       /\ UNCHANGED <<centers, providers>>

\* a table in which a pending booking can be completed at once
allowedTransitions_skip ==
  [ pending   |-> {CONFIRMED, CANCELLED, COMPLETED},
    confirmed |-> {COMPLETED, CANCELLED},
    completed |-> {},
    cancelled |-> {} ]

\* PUT /api/bookings/:bookingId/status: allowedTransitions
allowedTransitions ==
  [ pending   |-> {CONFIRMED, CANCELLED},
    confirmed |-> {COMPLETED, CANCELLED},
    completed |-> {},
    cancelled |-> {} ]

\* a filter that keeps every entry
RemoveBookedDates_keepAll(ec, b) == ec

\* bookedDates.filter(bookedDate => bookedDate.booking !== booking._id)
RemoveBookedDates(ec, b) ==
  [ec EXCEPT !.bookedDates = SelectSeq(ec.bookedDates, LAMBDA bookedDate : bookedDate.booking # b)]

\* bookedDates.push({startDate: eventDate, endDate: end of that day, booking})
PushBookedDate(ec, b, eventDate) ==
  [ec EXCEPT !.bookedDates =
     Append(ec.bookedDates,
            [startDate |-> eventDate, endDate |-> EndOfDay(eventDate), booking |-> b])]

\* PUT /:bookingId/status and DELETE /:bookingId: "Check authorization"
NotAuthorized(isCustomer, isProvider, isAdmin) ==
  ~isCustomer /\ ~isProvider /\ ~isAdmin

\* permissions that guard the move to confirmed only
RoleForbids_confirmOnly(status, isProvider, isAdmin) ==
  status = CONFIRMED /\ ~isProvider /\ ~isAdmin

\* PUT /:bookingId/status: "Role-based permissions for status changes"
RoleForbids(status, isProvider, isAdmin) ==
  \/ status = CONFIRMED /\ ~isProvider /\ ~isAdmin
  \/ status = COMPLETED /\ ~isProvider /\ ~isAdmin

\* PUT /api/bookings/:bookingId/status: the status code of the answer
PutStatusCode(user, b, status) ==
  IF status = None THEN BAD_REQUEST
  ELSE IF status \notin BOOKING_STATUS THEN BAD_REQUEST
  ELSE IF ~Exists(b) THEN NOT_FOUND
  ELSE
    LET booking    == bookings[b]
        isCustomer == booking.customer = user
        isProvider == booking.provider = user
        isAdmin    == UserRole[user] = ADMIN
        currentStatus == booking.status
    IN
    IF NotAuthorized(isCustomer, isProvider, isAdmin) THEN FORBIDDEN
    ELSE IF status \notin allowedTransitions[currentStatus] THEN BAD_REQUEST
    ELSE IF RoleForbids(status, isProvider, isAdmin) THEN FORBIDDEN
    ELSE OK

\* PUT /api/bookings/:bookingId/status
PutStatus(user, b, status) ==
  LET name == "PUT /api/bookings/:bookingId/status"
      code == PutStatusCode(user, b, status)
  IN
  IF code # OK THEN Reject(name, code)
  ELSE
    LET booking == bookings[b]
        pushed  == [booking EXCEPT
                      !.status = status,
                      !.statusHistory = Append(@, [status |-> status, changedBy |-> user])]
        saved   == IF status = CANCELLED
                   THEN [pushed EXCEPT !.cancellation = [cancelledBy |-> user]]
                   ELSE pushed
        ecId    == booking.eventCenter
    IN
    /\ bookings' = [bookings EXCEPT ![b] = saved]
    /\ centers' =
         IF booking.bookingType = "center" /\ ecId \in DOMAIN centers
         THEN IF status = CONFIRMED
              THEN [centers EXCEPT ![ecId] = PushBookedDate(@, b, booking.eventDate)]
              ELSE IF status = CANCELLED
              THEN [centers EXCEPT ![ecId] = RemoveBookedDates(@, b)]
              ELSE centers
         ELSE centers
    /\ Answer(name, OK)
    /\ UNCHANGED providers

\* a cancellation that does not look at the status of the booking
CancelBookingCode_anyStatus(user, b) ==
  IF ~Exists(b) THEN NOT_FOUND
  ELSE
    LET booking    == bookings[b]
        isCustomer == booking.customer = user
        isProvider == booking.provider = user
        isAdmin    == UserRole[user] = ADMIN
    IN
    IF NotAuthorized(isCustomer, isProvider, isAdmin) THEN FORBIDDEN
    ELSE OK

\* DELETE /api/bookings/:bookingId: the status code of the answer
CancelBookingCode(user, b) ==
  IF ~Exists(b) THEN NOT_FOUND
  ELSE
    LET booking    == bookings[b]
        isCustomer == booking.customer = user
        isProvider == booking.provider = user
        isAdmin    == UserRole[user] = ADMIN
    IN
    IF NotAuthorized(isCustomer, isProvider, isAdmin) THEN FORBIDDEN
    ELSE IF booking.status = CANCELLED THEN BAD_REQUEST
    ELSE IF booking.status = COMPLETED THEN BAD_REQUEST
    ELSE OK

\* DELETE /api/bookings/:bookingId
CancelBooking(user, b) ==
  LET name == "DELETE /api/bookings/:bookingId"
      code == CancelBookingCode(user, b)
  IN
  IF code # OK THEN Reject(name, code)
  ELSE
    LET booking == bookings[b]
        saved   == [booking EXCEPT
                      !.status = CANCELLED,
                      !.cancellation = [cancelledBy |-> user],
                      !.statusHistory = Append(@, [status |-> CANCELLED, changedBy |-> user])]
        ecId    == booking.eventCenter
    IN
    /\ bookings' = [bookings EXCEPT ![b] = saved]
    /\ centers' =
         IF booking.bookingType = "center" /\ ecId \in DOMAIN centers
         THEN [centers EXCEPT ![ecId] = RemoveBookedDates(@, b)]
         ELSE centers
    /\ Answer(name, OK)
    /\ UNCHANGED providers

\* POST /api/centers/:centerId/block-dates
BlockDates(user, ecId, startDate, endDate) ==
  LET name == "POST /api/centers/:centerId/block-dates" IN
  IF ecId \notin DOMAIN centers THEN Reject(name, NOT_FOUND)
  ELSE IF centers[ecId].owner # user THEN Reject(name, FORBIDDEN)
  ELSE /\ centers' = [centers EXCEPT ![ecId].blockedDates =
                        Append(@, [startDate |-> startDate, endDate |-> endDate])]
       /\ Answer(name, OK)
       /\ UNCHANGED <<bookings, providers>>

\* ------------------------------------------------ bookings: state machine
\* an EventCenter listing, verified and active, owned by the center user
InitCenter ==
  [ owner              |-> "owner",
    isActive           |-> TRUE,
    verificationStatus |-> "verified",
    capacity           |-> [minimum |-> 10, maximum |-> 500],
    rating             |-> [average |-> 0, count |-> 0],
    bookedDates        |-> <<>>,
    blockedDates       |-> <<>> ]

\* a ServiceProvider listing, verified and active, that is away on day 0
InitProvider ==
  [ provider           |-> "vendor",
    isActive           |-> TRUE,
    verificationStatus |-> "verified",
    status             |-> "available",
    rating             |-> [average |-> 0, count |-> 0],
    unavailableDates   |-> {0} ]

InitBookings ==
  /\ bookings = <<>>
  /\ centers = [c \in CenterIds |-> InitCenter]
  /\ providers = [p \in ProviderIds |-> InitProvider]

\* nobody's CAC is approved; registration has stored the vendor's profile
VendorProfile == [provider |-> "vendor", serviceName |-> "Catering"]

InitListings ==
  /\ cacVerified = [u \in Users |-> FALSE]
  /\ centerListings = <<>>
  /\ providerListings = << VendorProfile >>

\* no review stored, no review request under way
Idle == [pc |-> "idle", user |-> None, booking |-> 0, overall |-> 0, review |-> 0]

InitReviews ==
  /\ reviews = <<>>
  /\ inflight = [i \in 1..MaxInflight |-> Idle]

InitNotifications ==
  notifications = <<>>

\* one direct conversation, between the host and the vendor
ConvIds == {"k1"}

InitConversation ==
  [ participants |-> {"host1", "vendor"},
    conversationType |-> "direct",
    unreadCount  |-> [u \in {} |-> 0],
    archivedBy   |-> {},
    lastMessage  |-> [text |-> "", sender |-> None] ]

InitChat ==
  /\ conversations = [k \in ConvIds |-> InitConversation]
  /\ messages = <<>>
  /\ rooms = [k \in ConvIds |-> {}]

InitAuth ==
  /\ accounts = [u \in Users |-> [isActive |-> TRUE, rating |-> 0, reviewCount |-> 0]]
  /\ tokens = <<>>

\* every account holds the password it registered with and no reset token
InitReset ==
  /\ now = 0
  /\ credentials =
       [u \in Users |->
          [password |-> "secret", resetPasswordToken |-> 0, resetPasswordExpire |-> 0]]
  /\ issued = 0
  /\ spent = {}

InitExt ==
  /\ InitReset
  /\ userDocs = <<>>
  /\ roleDocs = <<>>
  /\ moderating =
       [i \in 1..MaxInflight |->
          [pc |-> "idle", name |-> None, review |-> 0,
           rating |-> [average |-> 0, count |-> 0]]]
  /\ creating =
       [i \in 1..MaxInflight |-> [pc |-> "idle", user |-> None, participant |-> None]]

InitAnswer ==
  /\ op = None
  /\ resp = 0
  /\ emitted = None

Init ==
  /\ InitBookings
  /\ InitListings
  /\ InitReviews
  /\ InitNotifications
  /\ InitChat
  /\ InitAuth
  /\ InitExt
  /\ InitAnswer

\* request bodies of POST /api/bookings
BookingBody(user, bookingType, spId, ecId, hasDetails, hasPricing, eventDate, guestCount) ==
  [ user |-> user, bookingType |-> bookingType, spId |-> spId, ecId |-> ecId,
    hasDetails |-> hasDetails, hasPricing |-> hasPricing,
    eventDate |-> eventDate, guestCount |-> guestCount ]

LastTick == NumDays * TicksPerDay - 1

\* bodies that fail one of the checks that come before the availability check
MalformedBodies ==
  { BookingBody("host1", "venue",    None,  "c1", TRUE,  TRUE,  0, 50),
    BookingBody("host1", "center",   None,  "c1", FALSE, TRUE,  0, 50),
    BookingBody("host1", "center",   None,  "c1", TRUE,  FALSE, 0, 50),
    BookingBody("host1", "center",   None,  None, TRUE,  TRUE,  0, 50),
    BookingBody("host1", "center",   None,  "c9", TRUE,  TRUE,  0, 50),
    BookingBody("host1", "provider", None,  None, TRUE,  TRUE,  LastTick, 50),
    BookingBody("host1", "provider", "sp9", None, TRUE,  TRUE,  LastTick, 50),
    BookingBody("host1", "provider", "sp1", None, TRUE,  TRUE,  0, 0),
    BookingBody("vendor", "provider", "sp1", None, TRUE, TRUE,  LastTick, 0) }

\* the bookings of the status workflow: a host books the center for day 0 and
\* an admin books the service provider for the last day
WorkflowBodies ==
  MalformedBodies \cup
  { BookingBody("host1", "center",   None,  "c1", TRUE, TRUE, 0, 50),
    BookingBody("admin", "provider", "sp1", None, TRUE, TRUE, LastTick, 0) }

BodyStatuses == BOOKING_STATUS \cup {None, "archived"}

\* the Booking collection holds at most MaxBookings documents
RoomFor(r) ==
  CreateBookingCode(r.user, r.bookingType, r.spId, r.ecId, r.hasDetails,
                    r.hasPricing, r.eventDate, r.guestCount) = CREATED
  => Len(bookings) < MaxBookings

Next ==
  \/ \E r \in WorkflowBodies :
       /\ RoomFor(r)
       /\ CreateBooking(r.user, r.bookingType, r.spId, r.ecId, r.hasDetails,
                        r.hasPricing, r.eventDate, r.guestCount)
       /\ UNCHANGED nonBookVars
  \/ \E user \in Users, b \in BookingIds, status \in BodyStatuses :
       /\ status \notin BOOKING_STATUS => user = "admin" /\ b = 1
       /\ PutStatus(user, b, status)
       /\ UNCHANGED nonBookVars
  \/ \E user \in Users, b \in BookingIds :
       /\ CancelBooking(user, b)
       /\ UNCHANGED nonBookVars

Spec == Init /\ [][Next]_vars

\* ------------------------------------------ center calendar: state machine
\* a host books the center for the first instant and the last instant of day
\* 0 and for the first instant of day 1, with a guest count inside or outside
\* the capacity; the owner tries to book the own center
CenterBodies ==
  { BookingBody("host1", "center", None, "c1", TRUE, TRUE, d, 50) :
      d \in {0, TicksPerDay - 1, TicksPerDay} } \cup
  { BookingBody("host1", "center", None, "c1", TRUE, TRUE, TicksPerDay, 5000),
    BookingBody("owner", "center", None, "c1", TRUE, TRUE, TicksPerDay, 0) }

\* the ranges the owner blocks: the last instant of day 0, and day 1 from its
\* first to its last instant
BlockRanges ==
  { <<TicksPerDay - 1, TicksPerDay - 1>>,
    <<TicksPerDay, 2 * TicksPerDay - 1>> }

NextAvail ==
  \/ \E r \in CenterBodies :
       /\ RoomFor(r)
       /\ CreateBooking(r.user, r.bookingType, r.spId, r.ecId, r.hasDetails,
                        r.hasPricing, r.eventDate, r.guestCount)
       /\ UNCHANGED nonBookVars
  \/ \E b \in BookingIds, status \in {CONFIRMED, CANCELLED} :
       /\ PutStatus("owner", b, status)
       /\ UNCHANGED nonBookVars
  \/ \E user \in {"owner", "vendor"}, range \in BlockRanges :
       /\ Len(centers["c1"].blockedDates) < MaxBlocks
       /\ BlockDates(user, "c1", range[1], range[2])
       /\ UNCHANGED nonBookVars

SpecAvail == Init /\ [][NextAvail]_vars

\* --------------------------------------------------- bookings: properties
IsParty(user, b) ==
  \/ bookings[b].customer = user
  \/ bookings[b].provider = user
  \/ UserRole[user] = ADMIN

\* the transition table as the documentation states it
StatedTransitions ==
  { <<PENDING, CONFIRMED>>, <<PENDING, CANCELLED>>,
    <<CONFIRMED, COMPLETED>>, <<CONFIRMED, CANCELLED>> }

\* the user whose request wrote the last statusHistory entry of a booking
LastChangedBy(booking) ==
  booking.statusHistory[Len(booking.statusHistory)].changedBy

\* C1: a status update changes the status of at most one booking, and only
\* along pending->confirmed, pending->cancelled, confirmed->completed,
\* confirmed->cancelled; the customer, the provider or an admin asking for any
\* other pair (the current status included) is answered 400, and an update
\* answered 400 leaves status, statusHistory and cancellation of every booking
\* as they were.
C1_TransitionTable ==
  /\ [](\A user \in Users, b \in 1..Len(bookings), status \in BOOKING_STATUS :
          (IsParty(user, b) /\ <<bookings[b].status, status>> \notin StatedTransitions)
          => PutStatusCode(user, b, status) = BAD_REQUEST)
  /\ [][ op' = Route.PutStatus =>
           /\ Len(bookings') = Len(bookings)
           /\ \A i, j \in 1..Len(bookings) :
                ( /\ bookings'[i].status # bookings[i].status
                  /\ bookings'[j].status # bookings[j].status )
                => /\ i = j
                   /\ <<bookings[i].status, bookings'[i].status>> \in StatedTransitions
           /\ resp' = BAD_REQUEST =>
                \A b \in 1..Len(bookings) :
                  /\ bookings'[b].status = bookings[b].status
                  /\ bookings'[b].statusHistory = bookings[b].statusHistory
                  /\ bookings'[b].cancellation = bookings[b].cancellation
       ]_vars

\* C1 witness: a status update was refused with 400 while a booking that has
\* gone from pending over confirmed to completed is stored
C1_Witness ==
  /\ op = Route.PutStatus
  /\ resp = BAD_REQUEST
  /\ \E b \in 1..Len(bookings) :
       /\ bookings[b].status = COMPLETED
       /\ Len(bookings[b].statusHistory) = 3

\* C2: completed and cancelled are terminal: no status update and no
\* cancellation, by any user, changes the status of a booking that is
\* completed or cancelled.
C2_Terminal ==
  [][ \A b \in 1..Len(bookings) :
        bookings[b].status \in {COMPLETED, CANCELLED} =>
          /\ Len(bookings') >= b
          /\ bookings'[b].status = bookings[b].status
    ]_vars

\* C2 witness: the cancellation of a booking that had been cancelled after
\* its confirmation was refused
C2_Witness ==
  /\ op = Route.CancelBooking
  /\ resp = BAD_REQUEST
  /\ \E b \in 1..Len(bookings) :
       /\ bookings[b].status = CANCELLED
       /\ Len(bookings[b].statusHistory) = 3

\* C3: a status update moves a booking to confirmed or completed only at the
\* request of the booking's provider or of an admin; the customer (who is not
\* an admin) asking for a move to confirmed or completed that the transition
\* table allows is answered 403; a requester who is neither customer, provider
\* nor admin is answered 403 for each of the four status values; and an update
\* answered 403 changes nothing.
C3_RolePermissions ==
  /\ [](\A user \in Users, b \in 1..Len(bookings), status \in BOOKING_STATUS :
          /\ ( /\ status \in {CONFIRMED, COMPLETED}
               /\ bookings[b].customer = user
               /\ UserRole[user] # ADMIN
               /\ <<bookings[b].status, status>> \in StatedTransitions )
             => PutStatusCode(user, b, status) = FORBIDDEN
          /\ ~IsParty(user, b) => PutStatusCode(user, b, status) = FORBIDDEN)
  /\ [][ op' = Route.PutStatus =>
           /\ resp' = FORBIDDEN => UNCHANGED bookVars
           /\ \A b \in 1..Len(bookings) :
                ( /\ bookings'[b].status # bookings[b].status
                  /\ bookings'[b].status \in {CONFIRMED, COMPLETED} )
                => \/ LastChangedBy(bookings'[b]) = bookings[b].provider
                   \/ UserRole[LastChangedBy(bookings'[b])] = ADMIN
       ]_vars

\* C3 witness: a status update was answered 403 while the booking of a
\* customer who is no admin stands confirmed by its provider
C3_Witness ==
  /\ op = Route.PutStatus
  /\ resp = FORBIDDEN
  /\ \E b \in 1..Len(bookings) :
       /\ UserRole[bookings[b].customer] # ADMIN
       /\ bookings[b].status = CONFIRMED
       /\ LastChangedBy(bookings[b]) = bookings[b].provider

\* C4: a center booking for the instant D is created only if the availability
\* check of the center for [D, end of D's day] reports available, the bounds
\* of booked and blocked ranges included; a request that reaches the check
\* while the range is not available is answered 409, and a request answered
\* 409 stores no booking.
C4_AvailabilityGate ==
  /\ [](\A user \in Users, D \in Ticks, guestCount \in {0, 5, 50, 5000} :
          LET code == CreateBookingCode(user, "center", None, "c1", TRUE, TRUE, D, guestCount)
              free == IsAvailable(centers["c1"], D, EndOfDay(D))
          IN  /\ code = CREATED => free
              /\ ~free => code = CONFLICT)
  /\ [][ op' = Route.CreateBooking =>
           /\ resp' = CONFLICT => UNCHANGED bookVars
           /\ Len(bookings') > Len(bookings) =>
                LET booking == bookings'[Len(bookings')] IN
                booking.bookingType = "center" =>
                  IsAvailable(centers[booking.eventCenter], booking.eventDate,
                              EndOfDay(booking.eventDate))
       ]_vars

\* C4 witness: a booking request was answered 409 while the calendar of the
\* center holds the range of a confirmed booking and a blocked range
C4_Witness ==
  /\ op = Route.CreateBooking
  /\ resp = CONFLICT
  /\ Len(centers["c1"].bookedDates) > 0
  /\ Len(centers["c1"].blockedDates) > 0
  /\ \E b \in 1..Len(bookings) : bookings[b].status = CONFIRMED

\* ====================================================================
\* Listings (routes/centers.js, routes/providers.js) and CAC approval
\* ====================================================================
\* middleware authorize(...roles)
Authorize(user, roles) == UserRole[user] \in roles

\* user.centerProfile.cacVerified and user.providerProfile.cacVerified: the
\* User schema declares cacVerified under hostProfile only, so both read as
\* undefined
ProfileCacVerified(user) == FALSE

\* PUT /api/users/:id/verify-cac-admin
VerifyCacAdmin(user, id, approve) ==
  LET code == IF ~Authorize(user, {ADMIN}) THEN FORBIDDEN
              ELSE IF id \notin Users THEN NOT_FOUND
              ELSE IF UserRole[id] # HOST THEN BAD_REQUEST
              ELSE OK
  IN
  /\ Answer(Route.VerifyCac, code)
  /\ cacVerified' = IF code = OK THEN [cacVerified EXCEPT ![id] = approve] ELSE cacVerified
  /\ UNCHANGED <<centerListings, providerListings>>

\* POST /api/centers, the route that checks the CAC: the status code
CreateCenterCheckedCode(user) ==
  IF ~Authorize(user, {CENTER}) THEN FORBIDDEN
  ELSE IF ~ProfileCacVerified(user) THEN FORBIDDEN
  ELSE CREATED

\* POST /api/centers, the route that checks the CAC
CreateCenterChecked(user, name) ==
  LET code == CreateCenterCheckedCode(user) IN
  /\ Answer(Route.CreateCenter, code)
  /\ centerListings' =
       IF code = CREATED
       THEN Append(centerListings, [owner |-> user, centerName |-> None, name |-> name])
       ELSE centerListings
  /\ UNCHANGED <<cacVerified, providerListings>>

\* POST /api/centers (with images): the status code
CreateCenterCode(user) ==
  IF ~Authorize(user, {CENTER}) THEN FORBIDDEN ELSE CREATED

\* EventCenter.findOne({ owner }): the position of the first match, 0 for null
FindCenterOf(user) ==
  IF \E i \in DOMAIN centerListings : centerListings[i].owner = user
  THEN CHOOSE i \in DOMAIN centerListings :
         /\ centerListings[i].owner = user
         /\ \A j \in 1..(i - 1) : centerListings[j].owner # user
  ELSE 0

\* POST /api/centers (with images): creates the caller's EventCenter if there
\* is none, then updates it with the body.  name = None is a body without name.
CreateCenter(user, name) ==
  LET code    == CreateCenterCode(user)
      found   == FindCenterOf(user)
      created == [ owner      |-> user,
                   centerName |-> IF name # None THEN name ELSE "My Event Center",
                   name       |-> None ]
      stored  == IF found = 0 THEN Append(centerListings, created) ELSE centerListings
      ec      == IF found = 0 THEN Len(stored) ELSE found
  IN
  /\ Answer(Route.CreateCenter, code)
  /\ centerListings' =
       IF code # CREATED THEN centerListings
       ELSE [stored EXCEPT ![ec] =
               [@ EXCEPT !.owner = user,
                         !.name  = IF name # None THEN name ELSE @]]
  /\ UNCHANGED <<cacVerified, providerListings>>

\* POST /api/providers, the route that checks the CAC: the status code
CreateProviderCheckedCode(user) ==
  IF ~Authorize(user, {PROVIDER}) THEN FORBIDDEN
  ELSE IF ~ProfileCacVerified(user) THEN FORBIDDEN
  ELSE CREATED

\* POST /api/providers, the route that checks the CAC
CreateProviderChecked(user, serviceName) ==
  LET code == CreateProviderCheckedCode(user) IN
  /\ Answer(Route.CreateProvider, code)
  /\ providerListings' =
       IF code = CREATED
       THEN Append(providerListings, [provider |-> user, serviceName |-> serviceName])
       ELSE providerListings
  /\ UNCHANGED <<cacVerified, centerListings>>

\* POST /api/providers, the route that asks for a profile: the status code
CreateProviderCode(user) ==
  IF ~Authorize(user, {PROVIDER}) THEN FORBIDDEN
  ELSE IF ~\E i \in DOMAIN providerListings : providerListings[i].provider = user
    THEN FORBIDDEN
  ELSE CREATED

\* POST /api/providers, the route that asks for a profile
CreateProvider(user, serviceName) ==
  LET code == CreateProviderCode(user) IN
  /\ Answer(Route.CreateProvider, code)
  /\ providerListings' =
       IF code = CREATED
       THEN Append(providerListings, [provider |-> user, serviceName |-> serviceName])
       ELSE providerListings
  /\ UNCHANGED <<cacVerified, centerListings>>

\* ------------------------------------------------ listings: state machine
ListingNames == {None, "Hall A"}
ServiceNames == {"DJ", "Decor"}

NextListing ==
  \/ \E user \in {"admin", "owner"}, id \in Users \cup {"nobody"}, approve \in BOOLEAN :
       /\ VerifyCacAdmin(user, id, approve)
       /\ UNCHANGED nonListVars
  \/ \E user \in Users, name \in ListingNames :
       /\ CreateCenterChecked(user, name)
       /\ UNCHANGED nonListVars
  \/ \E user \in Users, name \in ListingNames :
       /\ CreateCenter(user, name)
       /\ UNCHANGED nonListVars
  \/ \E user \in Users, serviceName \in ServiceNames :
       /\ CreateProviderChecked(user, serviceName)
       /\ UNCHANGED nonListVars
  \/ \E user \in Users, serviceName \in ServiceNames :
       /\ CreateProviderCode(user) = CREATED => Len(providerListings) < MaxListings
       /\ CreateProvider(user, serviceName)
       /\ UNCHANGED nonListVars

SpecListing == Init /\ [][NextListing]_vars

\* --------------------------------------------------- listings: properties
\* C5: while no user's CAC is approved, every POST /api/centers and every
\* POST /api/providers is answered 403 and creates and modifies no listing.
C5_CacRequired ==
  [][ ( /\ op' \in {Route.CreateCenter, Route.CreateProvider}
        /\ \A user \in Users : ~cacVerified[user] )
      => ( /\ resp' = FORBIDDEN
           /\ UNCHANGED <<centerListings, providerListings>> ) ]_vars

\* ====================================================================
\* Reviews (routes/reviews.js)
\* ====================================================================
\* the status codes the error handler answers a thrown error with
ErrorCodes == {BAD_REQUEST, CONFLICT, INTERNAL_ERROR}

\* checks that do not look at the status of the booking
ReviewCheckCode_anyStatus(user, b, overall) ==
  IF ~Exists(b) THEN NOT_FOUND
  ELSE IF bookings[b].customer # user THEN FORBIDDEN
  ELSE IF bookings[b].reviewed THEN CONFLICT
  ELSE IF overall = 0 THEN BAD_REQUEST
  ELSE OK

\* POST /api/reviews: the checks before Review.create.  OK stands for a
\* request that passes them; overall = 0 for a body without ratings.overall.
ReviewCheckCode(user, b, overall) ==
  IF ~Exists(b) THEN NOT_FOUND
  ELSE IF bookings[b].customer # user THEN FORBIDDEN
  ELSE IF bookings[b].status # COMPLETED THEN BAD_REQUEST
  ELSE IF bookings[b].reviewed THEN CONFLICT
  ELSE IF overall = 0 THEN BAD_REQUEST
  ELSE OK

\* no unique index on the Review collection
DuplicateKey_none(b, user) == FALSE

\* reviewSchema.index({ booking: 1, reviewer: 1 }, { unique: true })
DuplicateKey(b, user) ==
  \E i \in DOMAIN reviews : reviews[i].booking = b /\ reviews[i].reviewer = user

\* reviewSchema: ratings.overall min 1, max 5
ValidReview(overall) == overall \in 1..5

\* the Review document POST /api/reviews creates
NewReview(user, b, overall) ==
  [ reviewType      |-> bookings[b].bookingType,
    reviewer        |-> user,
    booking         |-> b,
    serviceProvider |-> IF bookings[b].bookingType = "provider"
                        THEN bookings[b].serviceProvider ELSE None,
    eventCenter     |-> IF bookings[b].bookingType = "provider"
                        THEN None ELSE bookings[b].eventCenter,
    overall         |-> overall,
    isHidden        |-> FALSE ]

\* parseFloat((totalRating / reviews.length).toFixed(1)), in tenths
Average10(totalRating, length) == (20 * totalRating + length) \div (2 * length)

RECURSIVE SumOverall(_)
SumOverall(seq) ==
  IF seq = <<>> THEN 0 ELSE seq[1].overall + SumOverall(Tail(seq))

\* updateProviderRating / updateCenterRating: rating from the reviews found
RatingOf(found) ==
  IF Len(found) = 0
  THEN [average |-> 0, count |-> 0]
  ELSE [average |-> Average10(SumOverall(found), Len(found)), count |-> Len(found)]

\* the Notification document NotificationService creates
NewNotification(recipient) ==
  [recipient |-> recipient, isRead |-> FALSE, readAt |-> 0, deleted |-> FALSE]

\* POST /api/reviews up to the first write: Booking.findById and the checks
ReviewCheck(slot, user, b, overall) ==
  LET code == ReviewCheckCode(user, b, overall) IN
  /\ inflight[slot].pc = "idle"
  /\ IF code # OK
     THEN /\ Answer(Route.Review, code)
          /\ UNCHANGED inflight
     ELSE /\ inflight' = [inflight EXCEPT ![slot] =
                 [pc |-> "create", user |-> user, booking |-> b,
                  overall |-> overall, review |-> 0]]
          /\ Await(Route.Review)
  /\ UNCHANGED <<bookVars, reviews, notifications, accounts>>

\* POST /api/reviews: Review.create
ReviewStore(slot) ==
  LET r == inflight[slot] IN
  /\ r.pc = "create"
  /\ IF DuplicateKey(r.booking, r.user) \/ ~ValidReview(r.overall)
     THEN /\ \E code \in ErrorCodes : Answer(Route.Review, code)
          /\ inflight' = [inflight EXCEPT ![slot] = Idle]
          /\ UNCHANGED reviews
     ELSE /\ reviews' = Append(reviews, NewReview(r.user, r.booking, r.overall))
          /\ inflight' = [inflight EXCEPT ![slot] =
                 [r EXCEPT !.pc = "finish", !.review = Len(reviews) + 1]]
          /\ Await(Route.Review)
  /\ UNCHANGED <<bookVars, notifications, accounts>>

\* POST /api/reviews after Review.create: booking.save(), updateRatings, the
\* answer and the notification of the provider or center owner
ReviewFinish(slot) ==
  LET r       == inflight[slot]
      booking == bookings[r.booking]
      review  == reviews[r.review]
      spId    == review.serviceProvider
      ecId    == review.eventCenter
      ofProvider == SelectSeq(reviews,
                      LAMBDA x : x.serviceProvider = spId /\ ~x.isHidden)
      ofCenter   == SelectSeq(reviews,
                      LAMBDA x : x.eventCenter = ecId /\ ~x.isHidden)
      rateProvider == review.reviewType = "provider" /\ spId \in DOMAIN providers
      rateCenter   == review.reviewType = "center" /\ ecId \in DOMAIN centers
      providerId == IF booking.bookingType = "provider"
                    THEN booking.provider
                    ELSE centers[booking.eventCenter].owner
  IN
  /\ r.pc = "finish"
  /\ bookings' = [bookings EXCEPT ![r.booking] =
                    [@ EXCEPT !.reviewed = TRUE, !.review = r.review]]
  /\ providers' = IF rateProvider
                  THEN [providers EXCEPT ![spId].rating = RatingOf(ofProvider)]
                  ELSE providers
  /\ accounts' = IF rateProvider
                 THEN [accounts EXCEPT
                         ![providers[spId].provider].rating = RatingOf(ofProvider).average,
                         ![providers[spId].provider].reviewCount = RatingOf(ofProvider).count]
                 ELSE accounts
  /\ centers' = IF rateCenter
                THEN [centers EXCEPT ![ecId].rating = RatingOf(ofCenter)]
                ELSE centers
  /\ Answer(Route.Review, CREATED)
  /\ notifications' = Append(notifications, NewNotification(providerId))
  /\ inflight' = [inflight EXCEPT ![slot] = Idle]
  /\ UNCHANGED reviews

\* ------------------------------------------------- reviews: state machine
\* the center booking of the host, confirmed and completed by the owner
CompletedBooking ==
  [NewBooking("host1", "center", "owner", None, "c1", 0) EXCEPT
     !.status = COMPLETED,
     !.statusHistory = << [status |-> PENDING,   changedBy |-> "host1"],
                          [status |-> CONFIRMED, changedBy |-> "owner"],
                          [status |-> COMPLETED, changedBy |-> "owner"] >>]

\* the provider booking of the admin, confirmed by the vendor
ConfirmedBooking ==
  [NewBooking("admin", "provider", "vendor", "sp1", None, LastTick) EXCEPT
     !.status = CONFIRMED,
     !.statusHistory = << [status |-> PENDING,   changedBy |-> "admin"],
                          [status |-> CONFIRMED, changedBy |-> "vendor"] >>]

InitReviewed ==
  /\ bookings = << CompletedBooking, ConfirmedBooking >>
  /\ centers = [c \in CenterIds |-> PushBookedDate(InitCenter, 1, 0)]
  /\ providers = [p \in ProviderIds |-> InitProvider]
  /\ InitListings
  /\ InitReviews
  /\ InitNotifications
  /\ InitChat
  /\ InitAuth
  /\ InitExt
  /\ InitAnswer

\* the lowest slot that holds no request
FreeSlot(slot) ==
  /\ inflight[slot].pc = "idle"
  /\ \A i \in 1..(slot - 1) : inflight[i].pc # "idle"

ReviewUsers    == {"host1", "admin", "vendor"}
ReviewBookings == 1..3
ReviewOveralls == {0, 5, 9}

NextReview ==
  \/ \E slot \in 1..MaxInflight, user \in ReviewUsers,
        b \in ReviewBookings, overall \in ReviewOveralls :
       /\ FreeSlot(slot)
       /\ ReviewCheck(slot, user, b, overall)
       /\ UNCHANGED nonRevVars
  \/ \E slot \in 1..MaxInflight :
       /\ ReviewStore(slot)
       /\ UNCHANGED nonRevVars
  \/ \E slot \in 1..MaxInflight :
       /\ ReviewFinish(slot)
       /\ UNCHANGED nonRevVars
  \* the vendor completes the confirmed booking
  \/ /\ PutStatus("vendor", 2, COMPLETED)
     /\ UNCHANGED nonBookVars

SpecReview == InitReviewed /\ [][NextReview]_vars

\* ---------------------------------------------------- reviews: properties
ReviewsOf(b) == {i \in DOMAIN reviews : reviews[i].booking = b}

\* C6: POST /api/reviews answers 404 for an unknown booking, 403 to a
\* requester who is not the booking's customer, 400 while the booking is not
\* completed and 409 once the booking is marked reviewed; a request answered
\* 404, 403, 400 or 409 creates and changes nothing; and a review is stored
\* only for a completed booking, by its customer, that has no review yet.
C6_ReviewGate ==
  /\ [](\A user \in Users, b \in ReviewBookings, overall \in ReviewOveralls :
          LET code == ReviewCheckCode(user, b, overall) IN
          /\ ~Exists(b) => code = NOT_FOUND
          /\ (Exists(b) /\ bookings[b].customer # user) => code = FORBIDDEN
          /\ (Exists(b) /\ bookings[b].customer = user /\ bookings[b].status # COMPLETED)
             => code = BAD_REQUEST
          /\ ( /\ Exists(b) /\ bookings[b].customer = user
               /\ bookings[b].status = COMPLETED /\ bookings[b].reviewed )
             => code = CONFLICT)
  /\ [][ /\ (op' = Route.Review /\ resp' \in {NOT_FOUND, FORBIDDEN, BAD_REQUEST, CONFLICT})
            => UNCHANGED <<bookVars, reviews, notifications, accounts>>
         /\ Len(reviews') > Len(reviews) =>
              LET review == reviews'[Len(reviews')] IN
              /\ Len(reviews') = Len(reviews) + 1
              /\ bookings[review.booking].customer = review.reviewer
              /\ bookings[review.booking].status = COMPLETED
              /\ ~bookings[review.booking].reviewed
              /\ ReviewsOf(review.booking) = {}
       ]_vars

\* C6 witness: a review request was answered 409 for a booking whose review
\* is stored and whose listing has been rated
C6_Witness ==
  /\ op = Route.Review
  /\ resp = CONFLICT
  /\ \E b \in DOMAIN bookings :
       /\ bookings[b].reviewed
       /\ ReviewsOf(b) # {}
  /\ centers["c1"].rating.count = 1

\* C7: no booking has more than one review, however the review requests
\* interleave.
C7_OneReviewPerBooking ==
  \A b \in DOMAIN bookings : Cardinality(ReviewsOf(b)) <= 1

\* C7 witness: two requests of the same customer for the same booking have
\* both passed the checks; the review of one is stored, the other has yet to
\* call Review.create
C7_Witness ==
  \E i, j \in 1..MaxInflight :
    /\ inflight[i].pc = "finish"
    /\ inflight[j].pc = "create"
    /\ inflight[i].booking = inflight[j].booking
    /\ inflight[i].user = inflight[j].user
    /\ Cardinality(ReviewsOf(inflight[i].booking)) = 1

\* ====================================================================
\* Conversations (routes/reviews.js, conversation routes) and the chat
\* socket (config/socket.js)
\* ====================================================================
\* Conversation.findById(conversationId) finds a document
ConversationExists(k) == k \in DOMAIN conversations

\* conversation.participants.some(p => p.toString() === user id)
IsParticipant(k, user) == user \in conversations[k].participants

\* conversation.unreadCount.get(user) || 0
UnreadOf(conversation, user) ==
  IF user \in DOMAIN conversation.unreadCount
  THEN conversation.unreadCount[user]
  ELSE 0

\* conversation.unreadCount.set(user, n)
SetUnread(unreadCount, user, n) ==
  [u \in (DOMAIN unreadCount) \cup {user} |-> IF u = user THEN n ELSE unreadCount[u]]

\* the forEach over the participants: one more unread message for every
\* participant but the sender
BumpUnread(conversation, sender) ==
  [u \in (DOMAIN conversation.unreadCount) \cup (conversation.participants \ {sender}) |->
     IF u \in conversation.participants \ {sender}
     THEN UnreadOf(conversation, u) + 1
     ELSE conversation.unreadCount[u]]

\* Message.create({conversation, sender, content, deliveryStatus: "sent"})
NewMessage(k, user, text) ==
  [conversation |-> k, sender |-> user, text |-> text, isRead |-> FALSE, readBy |-> {}]

\* the message stored, lastMessage set, the unread counts raised, saved
StoreMessage(k, user, text) ==
  /\ messages' = Append(messages, NewMessage(k, user, text))
  /\ conversations' =
       [conversations EXCEPT
          ![k].lastMessage = [text |-> text, sender |-> user],
          ![k].unreadCount = BumpUnread(conversations[k], user)]

\* GET /:conversationId/messages
GetMessagesCode(user, k) ==
  IF ~ConversationExists(k) THEN NOT_FOUND
  ELSE IF ~IsParticipant(k, user) THEN FORBIDDEN
  ELSE OK

GetMessages(user, k) ==
  /\ Answer(Route.GetMessages, GetMessagesCode(user, k))
  /\ UNCHANGED <<chatVars, notifications>>

\* POST /:conversationId/messages; the body carries a text and no attachment
SendMessageCode(user, k, text) ==
  IF ~ConversationExists(k) THEN NOT_FOUND
  ELSE IF ~IsParticipant(k, user) THEN FORBIDDEN
  ELSE IF text = "" THEN BAD_REQUEST
  ELSE CREATED

\* after the answer: a notification for every participant but the sender
\* (app.get("io") and app.get("notificationService") are set)
RECURSIVE NotifyAll(_, _)
NotifyAll(collection, recipients) ==
  IF recipients = {}
  THEN collection
  ELSE LET r == CHOOSE x \in recipients : TRUE
       IN NotifyAll(Append(collection, NewNotification(r)), recipients \ {r})

SendMessage(user, k, text) ==
  LET code == SendMessageCode(user, k, text) IN
  /\ Answer(Route.SendMessage, code)
  /\ IF code # CREATED
     THEN UNCHANGED <<chatVars, notifications>>
     ELSE /\ StoreMessage(k, user, text)
          /\ notifications' =
               NotifyAll(notifications, conversations[k].participants \ {user})
          /\ UNCHANGED rooms

\* PUT /:conversationId/read
MarkReadCode(user, k) ==
  IF ~ConversationExists(k) THEN NOT_FOUND
  ELSE IF ~IsParticipant(k, user) THEN FORBIDDEN
  ELSE OK

MarkRead(user, k) ==
  LET code == MarkReadCode(user, k) IN
  /\ Answer(Route.MarkRead, code)
  /\ UNCHANGED <<rooms, notifications>>
  /\ IF code # OK
     THEN UNCHANGED <<conversations, messages>>
     ELSE /\ messages' =
               [i \in DOMAIN messages |->
                  LET m == messages[i] IN
                  IF m.conversation = k /\ m.sender # user /\ ~m.isRead
                  THEN [m EXCEPT !.isRead = TRUE, !.readBy = @ \cup {user}]
                  ELSE m]
          /\ conversations' =
               [conversations EXCEPT
                  ![k].unreadCount = SetUnread(@, user, 0)]

\* PUT /:conversationId/archive
ArchiveCode(user, k) ==
  IF ~ConversationExists(k) THEN NOT_FOUND
  ELSE IF ~IsParticipant(k, user) THEN FORBIDDEN
  ELSE OK

Archive(user, k) ==
  LET code == ArchiveCode(user, k) IN
  /\ Answer(Route.Archive, code)
  /\ UNCHANGED <<messages, rooms, notifications>>
  /\ IF code # OK
     THEN UNCHANGED conversations
     ELSE conversations' =
            [conversations EXCEPT ![k].archivedBy = @ \cup {user}]

\* PUT /:conversationId/unarchive: no participant check
UnarchiveCode(user, k) ==
  IF ~ConversationExists(k) THEN NOT_FOUND ELSE OK

Unarchive(user, k) ==
  LET code == UnarchiveCode(user, k) IN
  /\ Answer(Route.Unarchive, code)
  /\ UNCHANGED <<messages, rooms, notifications>>
  /\ IF code # OK
     THEN UNCHANGED conversations
     ELSE conversations' =
            [conversations EXCEPT ![k].archivedBy = @ \ {user}]

\* socket.on("conversation:join"): what the handler emits to the socket
JoinEvent(user, k) ==
  IF ~ConversationExists(k) THEN "error"
  ELSE IF ~IsParticipant(k, user) THEN "error"
  ELSE "conversation:joined"

Join(user, k) ==
  LET event == JoinEvent(user, k) IN
  /\ Emit(Route.Join, event)
  /\ UNCHANGED <<conversations, messages, notifications>>
  /\ IF event = "error"
     THEN UNCHANGED rooms
     ELSE rooms' = [rooms EXCEPT ![k] = @ \cup {user}]

\* socket.on("message:send") without the participant check
SocketSendEvent_noCheck(user, k) ==
  IF ~ConversationExists(k) THEN "error"
  ELSE IF user \in rooms[k] THEN "message:new"
  ELSE None

\* socket.on("message:send"): what reaches the sending socket; message:new
\* goes to the room, so to the sender only when its socket has joined
SocketSendEvent(user, k) ==
  IF ~ConversationExists(k) THEN "error"
  ELSE IF ~IsParticipant(k, user) THEN "error"
  ELSE IF user \in rooms[k] THEN "message:new"
  ELSE None

SocketSend(user, k, text) ==
  LET event == SocketSendEvent(user, k) IN
  /\ Emit(Route.SocketSend, event)
  /\ UNCHANGED <<rooms, notifications>>
  /\ IF event = "error"
     THEN UNCHANGED <<conversations, messages>>
     ELSE StoreMessage(k, user, text)

\* socket.on("messages:read"): no participant check; the messages named,
\* of this conversation and not sent by the caller, become read, and the
\* caller's unread count of the conversation, if it exists, is set to 0
SocketRead(user, k, messageIds) ==
  /\ Emit(Route.SocketRead, None)
  /\ UNCHANGED <<rooms, notifications>>
  /\ messages' =
       [i \in DOMAIN messages |->
          LET m == messages[i] IN
          IF i \in messageIds /\ m.conversation = k /\ m.sender # user
          THEN [m EXCEPT !.isRead = TRUE, !.readBy = @ \cup {user}]
          ELSE m]
  /\ IF ConversationExists(k)
     THEN conversations' =
            [conversations EXCEPT ![k].unreadCount = SetUnread(@, user, 0)]
     ELSE UNCHANGED conversations

\* ------------------------------------------------ conversations: the cast
\* the two participants and a user who is in no conversation
ChatUsers == {"host1", "vendor", "owner"}
\* the conversation and an id no conversation has
ChatIds   == ConvIds \cup {"k9"}
Texts     == {"", "hi"}

\* a request that stores a message needs room in the collection
MessageRoom == Len(messages) < MaxMessages

NextChat ==
  \/ \E user \in ChatUsers, k \in ChatIds :
       /\ GetMessages(user, k)
       /\ UNCHANGED nonChatVars
  \/ \E user \in {"host1", "owner"}, k \in ChatIds, text \in Texts :
       /\ SendMessageCode(user, k, text) = CREATED => MessageRoom
       /\ SendMessage(user, k, text)
       /\ UNCHANGED nonChatVars
  \/ \E user \in {"vendor", "owner"}, k \in ChatIds :
       /\ MarkRead(user, k)
       /\ UNCHANGED nonChatVars
  \/ \E user \in {"vendor", "owner"}, k \in ChatIds :
       /\ Archive(user, k)
       /\ UNCHANGED nonChatVars
  \/ \E user \in {"vendor", "owner"}, k \in ChatIds :
       /\ Unarchive(user, k)
       /\ UNCHANGED nonChatVars
  \/ \E user \in {"host1", "owner"}, k \in ChatIds :
       /\ Join(user, k)
       /\ UNCHANGED nonChatVars
  \/ \E user \in {"vendor", "owner"}, k \in ChatIds :
       /\ SocketSendEvent(user, k) # "error" => MessageRoom
       /\ SocketSend(user, k, "hi")
       /\ UNCHANGED nonChatVars
  \/ \E user \in {"host1", "owner"}, k \in ConvIds :
       /\ SocketRead(user, k, DOMAIN messages)
       /\ UNCHANGED nonChatVars

SpecChat == Init /\ [][NextChat]_vars

\* ------------------------------------------- conversations: properties
\* C8: for a user who is not among a conversation's participants,
\* get-messages, send-message, mark-read and archive answer 403 and the
\* socket events conversation:join and message:send emit an error; a request
\* so answered creates no message, joins no room and leaves the conversation
\* as it was; every message stored is sent by a participant of its
\* conversation and every user in a room is a participant.
C8_ParticipantsOnly ==
  /\ [](\A user \in Users, k \in DOMAIN conversations :
          ~IsParticipant(k, user) =>
            /\ GetMessagesCode(user, k) = FORBIDDEN
            /\ \A text \in Texts : SendMessageCode(user, k, text) = FORBIDDEN
            /\ MarkReadCode(user, k) = FORBIDDEN
            /\ ArchiveCode(user, k) = FORBIDDEN
            /\ JoinEvent(user, k) = "error"
            /\ SocketSendEvent(user, k) = "error")
  /\ [][ /\ ( \/ ( /\ op' \in {Route.GetMessages, Route.SendMessage, Route.MarkRead, Route.Archive}
                   /\ resp' = FORBIDDEN )
              \/ ( /\ op' \in {Route.Join, Route.SocketSend}
                   /\ emitted' = "error" ) )
            => UNCHANGED <<conversations, messages, rooms, notifications>>
         /\ Len(messages') > Len(messages) =>
              LET m == messages'[Len(messages')] IN
              /\ Len(messages') = Len(messages) + 1
              /\ IsParticipant(m.conversation, m.sender)
         /\ \A k \in DOMAIN rooms : rooms'[k] \subseteq conversations[k].participants
       ]_vars

\* C8 witness: a user outside the conversation was answered 403 on sending
\* a message to it, while the conversation holds a message and a joined room
C8_Witness ==
  /\ op = Route.SendMessage
  /\ resp = FORBIDDEN
  /\ \E i \in DOMAIN messages : messages[i].conversation = "k1"
  /\ rooms["k1"] # {}
  /\ conversations["k1"].lastMessage.sender # None

\* ====================================================================
\* Notifications (routes/notifications.js)
\* ====================================================================
\* new Date() of a request; readAt is 0 while unset
SomeDate == 1

\* Notification.findById(id) finds a document
NotificationExists(id) ==
  /\ id \in DOMAIN notifications
  /\ ~notifications[id].deleted

\* PUT /:notificationId/read
ReadOneCode(user, id) ==
  IF ~NotificationExists(id) THEN NOT_FOUND
  ELSE IF notifications[id].recipient # user THEN FORBIDDEN
  ELSE OK

\* notification.markAsRead()
MarkAsRead(notification) ==
  [notification EXCEPT !.isRead = TRUE, !.readAt = SomeDate]

ReadOne(user, id) ==
  LET code == ReadOneCode(user, id) IN
  /\ Answer(Route.ReadOne, code)
  /\ IF code # OK
     THEN UNCHANGED notifications
     ELSE notifications' = [notifications EXCEPT ![id] = MarkAsRead(@)]

\* Notification.updateMany({recipient, isRead: false}, {isRead: true, readAt})
ReadAllResult(user) ==
  [i \in DOMAIN notifications |->
     LET n == notifications[i] IN
     IF ~n.deleted /\ n.recipient = user /\ ~n.isRead
     THEN [n EXCEPT !.isRead = TRUE, !.readAt = SomeDate]
     ELSE n]

\* PUT /read-all
ReadAll(user) ==
  /\ Answer(Route.ReadAll, OK)
  /\ notifications' = ReadAllResult(user)

\* DELETE /:notificationId without the ownership check
DeleteOneCode_noOwner(user, id) ==
  IF ~NotificationExists(id) THEN NOT_FOUND ELSE OK

\* DELETE /:notificationId
DeleteOneCode(user, id) ==
  IF ~NotificationExists(id) THEN NOT_FOUND
  ELSE IF notifications[id].recipient # user THEN FORBIDDEN
  ELSE OK

DeleteOne(user, id) ==
  LET code == DeleteOneCode(user, id) IN
  /\ Answer(Route.DeleteOne, code)
  /\ IF code # OK
     THEN UNCHANGED notifications
     ELSE notifications' = [notifications EXCEPT ![id].deleted = TRUE]

\* Notification.deleteMany({recipient, isRead: true})
DeleteAllResult(user) ==
  [i \in DOMAIN notifications |->
     LET n == notifications[i] IN
     IF ~n.deleted /\ n.recipient = user /\ n.isRead
     THEN [n EXCEPT !.deleted = TRUE]
     ELSE n]

\* DELETE /
DeleteAll(user) ==
  /\ Answer(Route.DeleteAll, OK)
  /\ notifications' = DeleteAllResult(user)

\* ------------------------------------------------ notifications: the cast
\* the two recipients and a user who receives nothing
NotifUsers == {"host1", "vendor", "owner"}
\* every id the collection can hold and one it cannot
NotificationIds == 1..(MaxMessages + 1)

NextNotif ==
  \* a participant sends a message: the other one is notified
  \/ \E user \in {"host1", "vendor"} :
       /\ MessageRoom
       /\ SendMessage(user, "k1", "hi")
       /\ UNCHANGED nonChatVars
  \/ \E user \in NotifUsers, id \in NotificationIds :
       /\ ReadOne(user, id)
       /\ UNCHANGED nonNotifVars
  \/ \E user \in NotifUsers :
       /\ ReadAll(user)
       /\ UNCHANGED nonNotifVars
  \/ \E user \in NotifUsers, id \in NotificationIds :
       /\ DeleteOne(user, id)
       /\ UNCHANGED nonNotifVars
  \/ \E user \in NotifUsers :
       /\ DeleteAll(user)
       /\ UNCHANGED nonNotifVars

SpecNotif == Init /\ [][NextNotif]_vars

\* ------------------------------------------- notifications: properties
\* C9: PUT /:id/read and DELETE /:id by a user who is not the notification's
\* recipient answer 403 and leave the notification's isRead, readAt and
\* existence as they were; PUT /read-all changes only notifications whose
\* recipient is the caller, and DELETE / removes only notifications whose
\* recipient is the caller and that are already read.
C9_RecipientOnly ==
  /\ [](\A user \in Users, id \in DOMAIN notifications :
          LET n == notifications[id] IN
          /\ (NotificationExists(id) /\ n.recipient # user) =>
               /\ ReadOneCode(user, id) = FORBIDDEN
               /\ DeleteOneCode(user, id) = FORBIDDEN
          /\ n.recipient # user =>
               /\ ReadAllResult(user)[id] = n
               /\ DeleteAllResult(user)[id] = n
          /\ ~n.isRead => DeleteAllResult(user)[id] = n
          /\ ReadAllResult(user)[id].deleted = n.deleted)
  /\ [][ (op' \in {Route.ReadOne, Route.DeleteOne} /\ resp' = FORBIDDEN)
           => UNCHANGED notifications ]_vars

\* C9 witness: a user was answered 403 on deleting a notification of someone
\* else, while both participants hold notifications, one of them read, and a
\* notification has been deleted by its recipient
C9_Witness ==
  /\ op = Route.DeleteOne
  /\ resp = FORBIDDEN
  /\ \E i, j \in DOMAIN notifications :
       /\ notifications[i].recipient # notifications[j].recipient
       /\ notifications[i].isRead
       /\ ~notifications[i].deleted
       /\ notifications[j].deleted

\* ====================================================================
\* Login (routes/auth.js) and account status (routes/users.js)
\* ====================================================================
\* the password every account was registered with
Secret == "secret"

\* validate(schemas.login): email and password are required, non-empty strings
ValidLogin(email, password) == email # "" /\ password # ""

\* User.findOne({ email }) finds a document; a user's email stands for the user
UserExists(email) == email \in DOMAIN accounts

\* user.comparePassword(password)
ComparePassword(user, password) == password = credentials[user].password

\* POST /login without the isActive check
LoginCode_noActiveCheck(email, password) ==
  IF ~ValidLogin(email, password) THEN BAD_REQUEST
  ELSE IF ~UserExists(email) THEN UNAUTHORIZED
  ELSE IF ~ComparePassword(email, password) THEN UNAUTHORIZED
  ELSE OK

\* POST /login
LoginCode(email, password) ==
  IF ~ValidLogin(email, password) THEN BAD_REQUEST
  ELSE IF ~UserExists(email) THEN UNAUTHORIZED
  ELSE IF ~accounts[email].isActive THEN FORBIDDEN
  ELSE IF ~ComparePassword(email, password) THEN UNAUTHORIZED
  ELSE OK

\* generateToken(user._id) and the answer
Login(email, password) ==
  LET code == LoginCode(email, password) IN
  /\ Answer(Route.Login, code)
  /\ UNCHANGED accounts
  /\ IF code # OK
     THEN UNCHANGED tokens
     ELSE tokens' = Append(tokens, email)

\* PUT /:id/toggle-status, behind protect and authorize(ADMIN)
ToggleStatusCode(user, id) ==
  IF ~Authorize(user, {ADMIN}) THEN FORBIDDEN
  ELSE IF ~UserExists(id) THEN NOT_FOUND
  ELSE OK

ToggleStatus(user, id) ==
  LET code == ToggleStatusCode(user, id) IN
  /\ Answer(Route.ToggleStatus, code)
  /\ UNCHANGED tokens
  /\ IF code # OK
     THEN UNCHANGED accounts
     ELSE accounts' = [accounts EXCEPT ![id].isActive = ~@]

\* ------------------------------------------------------ login: the cast
\* the registered users and an address nobody registered
Emails    == Users \cup {"nobody"}
\* the right password, a wrong one and a body without password
Passwords == {Secret, "guess", ""}

NextAuth ==
  \/ \E email \in Emails, password \in Passwords :
       /\ LoginCode(email, password) = OK => Len(tokens) < MaxTokens
       /\ Login(email, password)
       /\ UNCHANGED nonAuthVars
  \/ \E user \in {"admin", "host1"}, id \in Emails :
       /\ ToggleStatus(user, id)
       /\ UNCHANGED nonAuthVars

SpecAuth == Init /\ [][NextAuth]_vars

\* --------------------------------------------------- login: properties
\* C10: while a user is deactivated (from the admin's toggle-status until
\* the toggle back), every login for that user whose body passes validation
\* answers 403, with the right password as with a wrong one, and no login
\* for that user, whatever its body, issues a token.
C10_DeactivatedCannotLogin ==
  /\ [](\A user \in Users :
          ~accounts[user].isActive =>
            /\ LoginCode(user, Secret) = FORBIDDEN
            /\ \A password \in Passwords :
                 /\ ValidLogin(user, password) => LoginCode(user, password) = FORBIDDEN
                 /\ LoginCode(user, password) # OK)
  /\ [][ /\ (op' = Route.Login /\ resp' = FORBIDDEN) => UNCHANGED <<tokens, accounts>>
         /\ tokens' # tokens =>
              /\ Len(tokens') = Len(tokens) + 1
              /\ accounts[tokens'[Len(tokens')]].isActive
              /\ op' = Route.Login /\ resp' = OK
         /\ \A user \in Users :
              accounts'[user].isActive # accounts[user].isActive
                => (op' = Route.ToggleStatus /\ resp' = OK)
       ]_vars

\* C10 witness: the host logged in, was deactivated by the admin, and a
\* login was then answered 403
C10_Witness ==
  /\ op = Route.Login
  /\ resp = FORBIDDEN
  /\ ~accounts["host1"].isActive
  /\ \A user \in Users \ {"host1"} : accounts[user].isActive
  /\ \E i \in DOMAIN tokens : tokens[i] = "host1"

\* ====================================================================
\* Password reset (routes/auth.js, models/User.js)
\* ====================================================================
\* 10 * 60 * 1000 milliseconds, in ticks
ResetWindow == 2

\* crypto.createHash("sha256").update(token).digest("hex"): the digest of a
\* token is no token
Sha256(token) == token + 1000

\* validate(schemas.resetPassword): a password of at least 6 characters
ValidReset(password) == password \notin {"", "abc"}

\* POST /forgot-password
ForgotPasswordCode(email) ==
  IF email = "" THEN BAD_REQUEST
  ELSE IF ~UserExists(email) THEN NOT_FOUND
  ELSE OK

\* user.generateResetToken() and user.save()
ForgotPassword(email) ==
  LET code == ForgotPasswordCode(email) IN
  /\ Answer(Route.ForgotPassword, code)
  /\ UNCHANGED <<now, spent, authVars>>
  /\ IF code # OK
     THEN UNCHANGED <<credentials, issued>>
     ELSE /\ issued' = issued + 1
          /\ credentials' =
               [credentials EXCEPT
                  ![email].resetPasswordToken = Sha256(issued + 1),
                  ![email].resetPasswordExpire = now + ResetWindow]

\* User.findOne({resetPasswordToken, resetPasswordExpire: {$gt: Date.now()}})
ResetUsers(token) ==
  {u \in DOMAIN credentials :
     /\ credentials[u].resetPasswordToken = Sha256(token)
     /\ credentials[u].resetPasswordExpire > now}

\* POST /reset-password/:resetToken without the expiry in the query
ResetPasswordCode_noExpiry(token, password) ==
  IF ~ValidReset(password) THEN BAD_REQUEST
  ELSE IF \A u \in DOMAIN credentials :
            credentials[u].resetPasswordToken # Sha256(token) THEN BAD_REQUEST
  ELSE OK

\* POST /reset-password/:resetToken
ResetPasswordCode(token, password) ==
  IF ~ValidReset(password) THEN BAD_REQUEST
  ELSE IF ResetUsers(token) = {} THEN BAD_REQUEST
  ELSE OK

ResetPassword(token, password) ==
  LET code == ResetPasswordCode(token, password) IN
  /\ Answer(Route.ResetPassword, code)
  /\ UNCHANGED <<now, issued, accounts>>
  /\ IF code # OK
     THEN UNCHANGED <<credentials, spent, tokens>>
     ELSE LET user == CHOOSE u \in ResetUsers(token) : TRUE
          IN /\ credentials' =
                  [credentials EXCEPT
                     ![user] = [password |-> password,
                                resetPasswordToken |-> 0,
                                resetPasswordExpire |-> 0]]
             /\ tokens' = Append(tokens, user)
             /\ spent' = spent \cup {token}

\* time passes
Tick ==
  /\ now < MaxTime
  /\ now' = now + 1
  /\ UNCHANGED <<credentials, issued, spent, authVars, ansVars>>

\* ------------------------------------------------ password reset: the cast
\* every token issued so far, one not yet issued, and a digest
ResetTokens == 1..(MaxResets + 1) \cup {Sha256(1)}
NewPasswords == {"secret2", "abc"}

NextReset ==
  \/ \E email \in {"host1", "vendor", "nobody", ""} :
       /\ ForgotPasswordCode(email) = OK => issued < MaxResets
       /\ ForgotPassword(email)
       /\ UNCHANGED nonResetVars
  \/ \E token \in ResetTokens, password \in NewPasswords :
       /\ ResetPasswordCode(token, password) = OK => Len(tokens) < MaxTokens
       /\ ResetPassword(token, password)
       /\ UNCHANGED nonResetVars
  \/ /\ Tick
     /\ UNCHANGED nonResetVars

SpecReset == Init /\ [][NextReset]_vars

\* ----------------------------------------------- password reset: properties
\* C11: a reset token is accepted only while it is the token last issued to
\* a user, less than ten minutes after its issue, and not yet used: a token
\* that a reset has accepted is answered 400 ever after; a reset answered 400
\* leaves every password as it was, and a password changes only in a reset
\* answered 200.
C11_ResetTokenOnce ==
  /\ [](\A token \in ResetTokens, password \in NewPasswords :
          /\ ResetPasswordCode(token, password) = OK =>
               /\ token \in 1..issued
               /\ token \notin spent
               /\ \E u \in Users :
                    /\ credentials[u].resetPasswordToken = Sha256(token)
                    /\ now < credentials[u].resetPasswordExpire
          /\ token \in spent => ResetPasswordCode(token, password) = BAD_REQUEST)
  /\ [][ /\ \A u \in Users :
              credentials'[u].resetPasswordExpire # credentials[u].resetPasswordExpire =>
                \/ /\ op' = Route.ForgotPassword /\ resp' = OK
                   /\ credentials'[u].resetPasswordExpire = now + ResetWindow
                   /\ credentials'[u].resetPasswordToken = Sha256(issued')
                   /\ issued' = issued + 1
                \/ /\ op' = Route.ResetPassword /\ resp' = OK
                   /\ credentials'[u].resetPasswordExpire = 0
                   /\ credentials'[u].resetPasswordToken = 0
         /\ (op' = Route.ResetPassword /\ resp' = BAD_REQUEST)
              => UNCHANGED <<credentials, tokens, spent>>
         /\ \A u \in Users :
              credentials'[u].password # credentials[u].password =>
                (op' = Route.ResetPassword /\ resp' = OK)
       ]_vars

\* C11 witness: a token was used for a reset, and a later reset request was
\* answered 400 while another issued token has expired unused
C11_Witness ==
  /\ op = Route.ResetPassword
  /\ resp = BAD_REQUEST
  /\ spent # {}
  /\ \E u \in Users : credentials[u].password = "secret2"
  /\ \E u \in Users :
       /\ credentials[u].resetPasswordToken # 0
       /\ credentials[u].resetPasswordExpire <= now

\* ====================================================================
\* Registration (routes/auth.js)
\* ====================================================================
\* User.findOne({ email }).session(session) finds a document
EmailTaken(email) ==
  \/ UserExists(email)
  \/ \E i \in DOMAIN userDocs : userDocs[i].email = email

\* the model whose document the handler creates for the body's role: the
\* branches compare req.body.role, which validation leaves as it came
RoleModel(role) ==
  CASE role = PROVIDER -> "ServiceProvider"
    [] role = HOST     -> "Host"
    [] role = CENTER   -> "EventCenter"
    [] OTHER           -> None

\* POST /register up to the first write; a body without role carries None
RegisterCode(email, role, category) ==
  IF email = "" THEN BAD_REQUEST
  ELSE IF EmailTaken(email) THEN CONFLICT
  ELSE IF role = PROVIDER /\ ~category THEN BAD_REQUEST
  ELSE CREATED

\* POST /register: the writes run in one transaction, which is committed
\* after the last save and aborted when a save throws; saved tells whether
\* the role document passes its schema
Register(email, role, category, saved) ==
  LET code == RegisterCode(email, role, category)
      user == [email |-> email, role |-> IF role = None THEN HOST ELSE role]
  IN
  /\ UNCHANGED <<accounts, resetVars>>
  /\ IF code # CREATED
     THEN /\ Answer(Route.Register, code)
          /\ UNCHANGED <<userDocs, roleDocs, tokens>>
     ELSE IF RoleModel(role) # None /\ ~saved
     THEN /\ \E error \in ErrorCodes : Answer(Route.Register, error)
          /\ UNCHANGED <<userDocs, roleDocs, tokens>>
     ELSE /\ Answer(Route.Register, CREATED)
          /\ userDocs' = Append(userDocs, user)
          /\ roleDocs' =
               IF RoleModel(role) = None
               THEN roleDocs
               ELSE Append(roleDocs, [model |-> RoleModel(role), user |-> email])
          /\ tokens' = Append(tokens, email)

\* --------------------------------------------------- registration: the cast
NextRegister ==
  \/ \E email \in {"host1", "new1", "new2", ""},
        role \in {None, ADMIN, HOST, PROVIDER, CENTER},
        category \in BOOLEAN, saved \in BOOLEAN :
       /\ (RegisterCode(email, role, category) = CREATED /\ (RoleModel(role) = None \/ saved))
            => (Len(userDocs) < MaxUsers /\ Len(tokens) < MaxTokens)
       /\ Register(email, role, category, saved)
       /\ UNCHANGED nonRegVars

SpecRegister == Init /\ [][NextRegister]_vars

\* ---------------------------------------------- registration: properties
\* C12: a register request that is not answered 201 leaves the users and
\* the role documents as they were; one answered 201 stores one User and,
\* with it, one role document for that user; no two users share an email.
C12_AllOrNothing ==
  /\ [](\A i, j \in DOMAIN userDocs :
          /\ i # j => userDocs[i].email # userDocs[j].email
          /\ ~UserExists(userDocs[i].email))
  /\ [][ op' = Route.Register =>
           IF resp' # CREATED
           THEN UNCHANGED <<userDocs, roleDocs>>
           ELSE /\ Len(userDocs') = Len(userDocs) + 1
                /\ SubSeq(userDocs', 1, Len(userDocs)) = userDocs
                /\ LET user == userDocs'[Len(userDocs')].email IN
                   Cardinality({i \in DOMAIN roleDocs' : roleDocs'[i].user = user}) = 1
       ]_vars

\* ====================================================================
\* Reading and moderating reviews (routes/reviews.js)
\* ====================================================================
\* req.user in GET /:reviewId: the route runs without protect, and protect
\* alone sets req.user, so it is undefined whoever sends the request
ReqUser(requester) == None

\* GET /:reviewId
GetReviewCode(requester, id) ==
  IF id \notin DOMAIN reviews THEN NOT_FOUND
  ELSE IF /\ reviews[id].isHidden
          /\ (ReqUser(requester) = None \/ UserRole[ReqUser(requester)] # ADMIN)
       THEN NOT_FOUND
  ELSE OK

GetReview(requester, id) ==
  /\ Answer(Route.GetReview, GetReviewCode(requester, id))
  /\ UNCHANGED <<bookVars, revVars, accounts, moderating>>

\* PUT /:reviewId/hide and PUT /:reviewId/unhide, behind protect and
\* authorize(ADMIN)
ModerateCode(user, id) ==
  IF ~Authorize(user, {ADMIN}) THEN FORBIDDEN
  ELSE IF id \notin DOMAIN reviews THEN NOT_FOUND
  ELSE OK

\* up to review.save(): isHidden is written
ModerateStart(slot, user, id, hidden) ==
  LET code == ModerateCode(user, id)
      name == IF hidden THEN Route.Hide ELSE Route.Unhide
  IN
  /\ moderating[slot].pc = "idle"
  /\ UNCHANGED <<bookVars, inflight, accounts>>
  /\ IF code # OK
     THEN /\ Answer(name, code)
          /\ UNCHANGED <<reviews, moderating>>
     ELSE /\ Await(name)
          /\ reviews' = [reviews EXCEPT ![id].isHidden = hidden]
          /\ moderating' = [moderating EXCEPT ![slot].pc = "find",
                                              ![slot].name = name,
                                              ![slot].review = id]

\* updateRatings up to the save: the listing is read, then its reviews that
\* are not hidden, and the rating is computed from them
ModerateFind(slot) ==
  LET review == reviews[moderating[slot].review]
      found  == IF review.reviewType = "provider"
                THEN SelectSeq(reviews, LAMBDA x :
                       x.serviceProvider = review.serviceProvider /\ ~x.isHidden)
                ELSE SelectSeq(reviews, LAMBDA x :
                       x.eventCenter = review.eventCenter /\ ~x.isHidden)
  IN
  /\ moderating[slot].pc = "find"
  /\ Await(moderating[slot].name)
  /\ moderating' = [moderating EXCEPT ![slot].pc = "save",
                                      ![slot].rating = RatingOf(found)]
  /\ UNCHANGED <<bookVars, revVars, accounts>>

\* serviceProvider.save() or eventCenter.save(), the copy into the
\* provider's profile, and the answer
ModerateSave(slot) ==
  LET r      == moderating[slot]
      review == reviews[r.review]
      spId   == review.serviceProvider
      ecId   == review.eventCenter
      rateProvider == review.reviewType = "provider" /\ spId \in DOMAIN providers
      rateCenter   == review.reviewType = "center" /\ ecId \in DOMAIN centers
  IN
  /\ r.pc = "save"
  /\ providers' = IF rateProvider
                  THEN [providers EXCEPT ![spId].rating = r.rating]
                  ELSE providers
  /\ accounts' = IF rateProvider
                 THEN [accounts EXCEPT
                         ![providers[spId].provider].rating = r.rating.average,
                         ![providers[spId].provider].reviewCount = r.rating.count]
                 ELSE accounts
  /\ centers' = IF rateCenter
                THEN [centers EXCEPT ![ecId].rating = r.rating]
                ELSE centers
  /\ Answer(r.name, OK)
  /\ moderating' = [moderating EXCEPT ![slot].pc = "idle"]
  /\ UNCHANGED <<bookings, revVars>>

\* ------------------------------------------------ moderation: state machine
\* what the moderation routes never write
nonModVars == <<listVars, notifVars, chatVars, tokens, resetVars, regVars, convVars>>

\* the customer reviews the completed center booking; anyone reads a
\* review; the admin, or a host, hides and unhides
NextModerate ==
  \/ \E slot \in 1..MaxInflight :
       /\ FreeSlot(slot)
       /\ ReviewCheck(slot, "host1", 1, 5)
       /\ UNCHANGED nonRevVars
  \/ \E slot \in 1..MaxInflight :
       /\ ReviewStore(slot)
       /\ UNCHANGED nonRevVars
  \/ \E slot \in 1..MaxInflight :
       /\ ReviewFinish(slot)
       /\ UNCHANGED nonRevVars
  \/ \E requester \in {"admin", "host1", None}, id \in 1..MaxBookings + 1 :
       /\ GetReview(requester, id)
       /\ UNCHANGED nonModVars
  \/ \E slot \in 1..MaxInflight, user \in {"admin", "host1"},
        id \in 1..MaxBookings + 1, hidden \in BOOLEAN :
       /\ ModerateStart(slot, user, id, hidden)
       /\ UNCHANGED nonModVars
  \/ \E slot \in 1..MaxInflight :
       /\ ModerateFind(slot)
       /\ UNCHANGED nonModVars
  \/ \E slot \in 1..MaxInflight :
       /\ ModerateSave(slot)
       /\ UNCHANGED nonModVars

SpecModerate == InitReviewed /\ [][NextModerate]_vars

\* ------------------------------------------------- moderation: properties
\* C13: GET /api/reviews/:reviewId answers 404 for a hidden review unless
\* the requesting user is an admin, who gets the hidden review; a review
\* that is not hidden is returned to everyone.
C13_HiddenReview ==
  \A requester \in Users, id \in DOMAIN reviews :
    GetReviewCode(requester, id) =
      IF reviews[id].isHidden /\ UserRole[requester] # ADMIN
      THEN NOT_FOUND
      ELSE OK

\* no review, hide or unhide request is between two awaits
Quiescent ==
  /\ \A i \in DOMAIN inflight : inflight[i].pc = "idle"
  /\ \A i \in DOMAIN moderating : moderating[i].pc = "idle"

\* the number of reviews of a listing that are not hidden
VisibleCount(field, id) ==
  Cardinality({i \in DOMAIN reviews : reviews[i][field] = id /\ ~reviews[i].isHidden})

\* C17: whenever no review operation is under way, the rating.count of every
\* event center and service provider is the number of its reviews that are
\* not hidden, and count and average are 0 when it has none; interleaved
\* operations included.
C17_RatingCount ==
  Quiescent =>
    /\ \A c \in DOMAIN centers :
         /\ centers[c].rating.count = VisibleCount("eventCenter", c)
         /\ centers[c].rating.count = 0 => centers[c].rating.average = 0
    /\ \A p \in DOMAIN providers :
         /\ providers[p].rating.count = VisibleCount("serviceProvider", p)
         /\ providers[p].rating.count = 0 => providers[p].rating.average = 0

\* ====================================================================
\* Creating a conversation (routes/reviews.js, conversation routes)
\* ====================================================================
\* Conversation.findOne({conversationType: "direct",
\*                       participants: {$all: [user, participant], $size: 2}})
DirectBetween(user, participant) ==
  {k \in DOMAIN conversations :
     /\ conversations[k].conversationType = "direct"
     /\ conversations[k].participants = {user, participant}}

\* the ids the database gives to new conversations, in order
FreshIds == <<"k2", "k3", "k4", "k5">>

\* POST / up to Conversation.create; the body asks for a direct conversation
\* and carries no initial message
CreateConversationCode(user, participant) ==
  IF participant = None THEN BAD_REQUEST
  ELSE IF participant \notin Users THEN NOT_FOUND
  ELSE IF participant = user THEN BAD_REQUEST
  ELSE IF DirectBetween(user, participant) # {} THEN OK
  ELSE CREATED

CreateConversationCheck(slot, user, participant) ==
  LET code == CreateConversationCode(user, participant) IN
  /\ creating[slot].pc = "idle"
  /\ UNCHANGED conversations
  /\ IF code # CREATED
     THEN /\ Answer(Route.CreateConversation, code)
          /\ UNCHANGED creating
     ELSE /\ Await(Route.CreateConversation)
          /\ creating' = [creating EXCEPT
                            ![slot] = [pc |-> "create", user |-> user,
                                       participant |-> participant]]

\* Conversation.create(conversationData) and the answer
CreateConversationStore(slot) ==
  LET r  == creating[slot]
      id == FreshIds[Cardinality(DOMAIN conversations)]
  IN
  /\ r.pc = "create"
  /\ conversations' =
       [k \in DOMAIN conversations \cup {id} |->
          IF k = id
          THEN [ participants |-> {r.user, r.participant},
                 conversationType |-> "direct",
                 unreadCount  |-> [u \in {r.user, r.participant} |-> 0],
                 archivedBy   |-> {},
                 lastMessage  |-> [text |-> "", sender |-> None] ]
          ELSE conversations[k]]
  /\ Answer(Route.CreateConversation, CREATED)
  /\ creating' = [creating EXCEPT ![slot].pc = "idle"]

\* ---------------------------------------- creating a conversation: the cast
\* what POST /api/conversations never writes
nonConvVars ==
  <<bookVars, listVars, revVars, notifVars, messages, rooms, authVars,
    resetVars, regVars, modVars>>

\* the host and the owner ask for a conversation with each other, with the
\* vendor, with an unknown user, with no one and with themselves
NextConversation ==
  \/ \E slot \in 1..MaxInflight, user \in {"host1", "owner"},
        participant \in {"host1", "owner", "vendor", "nobody", None} :
       /\ CreateConversationCheck(slot, user, participant)
       /\ UNCHANGED nonConvVars
  \/ \E slot \in 1..MaxInflight :
       /\ Cardinality(DOMAIN conversations) < MaxConversations
       /\ CreateConversationStore(slot)
       /\ UNCHANGED nonConvVars

SpecConversation == Init /\ [][NextConversation]_vars

\* ------------------------------------ creating a conversation: properties
\* C14: no two direct conversations have the same two participants, however
\* the requests interleave; a request for a pair that has a direct
\* conversation is answered 200 and creates nothing.
C14_OneDirectConversation ==
  /\ [](\A k, l \in DOMAIN conversations :
          ( /\ k # l
            /\ conversations[k].conversationType = "direct"
            /\ conversations[l].conversationType = "direct" )
          => conversations[k].participants # conversations[l].participants)
  /\ [](\A user, participant \in Users :
          (user # participant /\ DirectBetween(user, participant) # {})
            => CreateConversationCode(user, participant) = OK)
  /\ [][ (op' = Route.CreateConversation /\ resp' = OK)
           => UNCHANGED <<conversations, messages>> ]_vars

\* ------------------------------------------- booked dates of a booking
\* the entries of a center's availability.bookedDates that reference booking b
EntriesOf(ecId, b) ==
  {i \in DOMAIN centers[ecId].bookedDates : centers[ecId].bookedDates[i].booking = b}

\* C15: with status updates and cancellations run one at a time, the center
\* of a center booking holds exactly one bookedDates entry referencing the
\* booking while it is confirmed or completed and none while it is pending or
\* cancelled; no other center holds an entry referencing it.
C15_BookedDatesFollowStatus ==
  \A b \in DOMAIN bookings :
    bookings[b].bookingType = "center" =>
      \A ecId \in DOMAIN centers :
        Cardinality(EntriesOf(ecId, b)) =
          IF /\ ecId = bookings[b].eventCenter
             /\ bookings[b].status \in {CONFIRMED, COMPLETED}
          THEN 1 ELSE 0

\* a center booking that was confirmed and then cancelled
C15_Witness ==
  \E b \in DOMAIN bookings :
    /\ bookings[b].bookingType = "center"
    /\ bookings[b].status = CANCELLED
    /\ \E i \in DOMAIN bookings[b].statusHistory :
         bookings[b].statusHistory[i].status = CONFIRMED
    /\ EntriesOf(bookings[b].eventCenter, b) = {}

\* ---------------------------------- two bookings of a center: state machine
\* a host asks for the center for day 0 and for day 1, more than once; the
\* owner and the host update and cancel the bookings
NextCalendar ==
  \/ \E eventDate \in {0, TicksPerDay} :
       /\ Len(bookings) < MaxBookings + 1
       /\ CreateBooking("host1", "center", None, "c1", TRUE, TRUE, eventDate, 50)
       /\ UNCHANGED nonBookVars
  \/ \E user \in {"host1", "owner"}, b \in 1..(MaxBookings + 1),
        status \in BOOKING_STATUS :
       /\ PutStatus(user, b, status)
       /\ UNCHANGED nonBookVars
  \/ \E user \in {"host1", "owner"}, b \in 1..(MaxBookings + 1) :
       /\ CancelBooking(user, b)
       /\ UNCHANGED nonBookVars

SpecCalendar == Init /\ [][NextCalendar]_vars

\* C16: no center's availability.bookedDates holds two entries of different
\* bookings whose date ranges overlap, and no two bookings of one center for
\* the same event day are both confirmed.
C16_NoDoubleBooking ==
  /\ \A ecId \in DOMAIN centers :
       \A i, j \in DOMAIN centers[ecId].bookedDates :
         LET x == centers[ecId].bookedDates[i]
             y == centers[ecId].bookedDates[j]
         IN  x.booking # y.booking
               => ~(x.startDate <= y.endDate /\ x.endDate >= y.startDate)
  /\ \A a, b \in DOMAIN bookings :
       ( /\ a # b
         /\ bookings[a].bookingType = "center"
         /\ bookings[b].bookingType = "center"
         /\ bookings[a].eventCenter = bookings[b].eventCenter
         /\ DateString(bookings[a].eventDate) = DateString(bookings[b].eventDate) )
       => ~(bookings[a].status = CONFIRMED /\ bookings[b].status = CONFIRMED)

\* ====================================================================
\* Authentication of requests and sockets (middleware/auth.js, socket.js)
\* ====================================================================
\* A token is the position of its subject in tokens; 0 stands for a request
\* without token, a position outside tokens for a string jwt.verify rejects.
\* Tokens are presented within their lifetime (jwtExpire).

\* protect: 401 without token, when jwt.verify throws and when the user is
\* gone; otherwise next()
ProtectCode(token) ==
  IF token = 0 THEN UNAUTHORIZED
  ELSE IF token \notin DOMAIN tokens THEN UNAUTHORIZED
  ELSE IF ~UserExists(tokens[token]) THEN UNAUTHORIZED
  ELSE OK

Protect(token) ==
  /\ Answer(Route.Protect, ProtectCode(token))
  /\ UNCHANGED authVars

\* io.use: next(new Error(...)) or next()
ConnectEvent(token) ==
  IF token = 0 THEN "connect_error"
  ELSE IF token \notin DOMAIN tokens THEN "connect_error"
  ELSE IF ~UserExists(tokens[token]) THEN "connect_error"
  ELSE "connection"

Connect(token) ==
  /\ Emit(Route.Connect, ConnectEvent(token))
  /\ UNCHANGED authVars

\* ------------------------------------------------- sessions: state machine
NextSession ==
  \/ \E email \in {"host1", "admin"}, password \in {Secret, "guess"} :
       /\ LoginCode(email, password) = OK => Len(tokens) < MaxTokens
       /\ Login(email, password)
       /\ UNCHANGED nonAuthVars
  \/ \E user \in {"admin", "host1"}, id \in {"host1", "nobody"} :
       /\ ToggleStatus(user, id)
       /\ UNCHANGED nonAuthVars
  \/ \E token \in 0..(MaxTokens + 1) :
       /\ Protect(token)
       /\ UNCHANGED nonAuthVars
  \/ \E token \in 0..(MaxTokens + 1) :
       /\ Connect(token)
       /\ UNCHANGED nonAuthVars

SpecSession == Init /\ [][NextSession]_vars

\* C18: while a user is deactivated, no token of that user passes protect or
\* the socket authentication middleware.  Login issues no token to a
\* deactivated user, so every token such a user holds was issued before the
\* deactivation.
C18_DeactivatedTokenRefused ==
  \A token \in DOMAIN tokens :
    ~accounts[tokens[token]].isActive =>
      /\ ProtectCode(token) # OK
      /\ ConnectEvent(token) # "connection"

====
